---- MODULE Spec2Model ----
(***************************************************************************)
(* A model of the journal/category federation library (src/impl.py):       *)
(* the two stores, the upload handlers that fill them, the query handlers  *)
(* that read them, and the BasicQueryEngine / FullQueryEngine that         *)
(* combine, normalise, map and join the handlers' relations.               *)
(*                                                                         *)
(* Data frames are records [cols, rows]: cols is the set of column names,  *)
(* rows the sequence of rows.  A cell of a wide frame is a tagged value:   *)
(* a scalar text, a list of texts, NaN (no value for that subject) or      *)
(* None (what row.get gives for a column the frame does not have).         *)
(***************************************************************************)
EXTENDS Integers, Sequences, FiniteSets, TLC

VARIABLES
    graph,          \* the triple store behind the SPARQL endpoint: a set of triples
    journal_category, \* the relational table: whether it was created, and its rows
    journalQuery,   \* BasicQueryEngine.journalQuery: sequence of bibliographic handlers
    categoryQuery,  \* BasicQueryEngine.categoryQuery: sequence of category handlers
    ret,            \* what the call just made returned to its caller: [op, args, exc, val]
    long_df,        \* normaliser pipeline: the long relation handed to _df_to_wide
    wide_df,        \* normaliser pipeline: the frame _df_to_wide returned
    journals,       \* normaliser pipeline: what _wide_df_to_journals returned
    entity          \* an object the caller constructed itself: <<object>>, or the exception

vars == <<graph, journal_category, journalQuery, categoryQuery, ret,
          long_df, wide_df, journals, entity>>

engineVars == <<graph, journal_category, journalQuery, categoryQuery, ret>>
pipeVars == <<long_df, wide_df, journals, entity>>

(***************************************************************************)
(* Bounds of the model.                                                    *)
(***************************************************************************)
MaxHandlers == 3      \* handlers registered in the two registries together
MaxLongRows == 3      \* rows of a long relation given to the normaliser directly

(***************************************************************************)
(* Generic helpers on sequences.                                           *)
(***************************************************************************)
Range(s) == {s[i] : i \in 1..Len(s)}

RECURSIVE SetToSeq(_)
SetToSeq(S) ==
    IF S = {} THEN <<>>
    ELSE LET x == CHOOSE y \in S : TRUE IN <<x>> \o SetToSeq(S \ {x})

\* the first occurrence of every element, in order (pd.unique, drop_duplicates, DISTINCT)
Unique(s) ==
    LET First(i) == \A k \in 1..(i - 1) : s[k] # s[i]
        kept == SelectSeq([i \in 1..Len(s) |-> i], First)
    IN [n \in 1..Len(kept) |-> s[kept[n]]]

RECURSIVE Flatten(_)
Flatten(ss) == IF ss = <<>> THEN <<>> ELSE Head(ss) \o Flatten(Tail(ss))

(***************************************************************************)
(* Python values that a cell or an entity field can hold.                  *)
(***************************************************************************)
NaN == [kind |-> "nan", vals |-> <<>>]
PyNone == [kind |-> "none", vals |-> <<>>]
Scalar(v) == [kind |-> "scalar", vals |-> <<v>>]
ListOf(vs) == [kind |-> "list", vals |-> vs]

\* Python's == between a cell and the boolean False: a str, a list, NaN and None
\* are all of another type than bool, and unequal to it
PyBool(b) == [kind |-> "bool", vals |-> <<IF b THEN "True" ELSE "False">>]
PyEq(a, b) == a.kind = b.kind /\ a.vals = b.vals

\* str(value) compared as it is written, capitals kept
LowerAsWritten(s) == s

\* str(value).lower() for the texts of the model
Lower(s) ==
    CASE s = "True" -> "true"
      [] s = "TRUE" -> "true"
      [] s = "False" -> "false"
      [] s = "Yes" -> "yes"
      [] s = "YES" -> "yes"
      [] s = "No" -> "no"
      [] s = "None" -> "none"
      [] s = "Alpha" -> "alpha"
      [] s = "Beta" -> "beta"
      [] s = "PubA" -> "puba"
      [] s = "PubB" -> "pubb"
      [] s = "ALPHA" -> "alpha"
      [] s = "Pub" -> "pub"
      [] s = "AL" -> "al"
      [] OTHER -> s

PyStr(c) ==
    CASE c.kind = "scalar" -> c.vals[1]
      [] c.kind = "none" -> "None"
      [] c.kind = "nan" -> "nan"
      [] c.kind = "bool" -> c.vals[1]
      [] OTHER -> "[...]"


(***************************************************************************)
(* The texts of the model.                                                 *)
(***************************************************************************)
BaseUri == "http://application.org/"
P_type == "http://www.w3.org/1999/02/22-rdf-syntax-ns#type"
P_id == "http://application.org/id"
P_title == "http://application.org/title"
P_publisher == "http://application.org/publisher"
P_language == "http://application.org/language"
P_license == "http://application.org/license"
P_apc == "http://application.org/apc"
P_seal == "http://application.org/seal"
C_Journal == "http://application.org/Journal"

\* str(c).split('/')[-1].split('#')[-1] for the predicates of the model
LocalName(p) ==
    CASE p = P_type -> "type"
      [] p = P_id -> "id"
      [] p = P_title -> "title"
      [] p = P_publisher -> "publisher"
      [] p = P_language -> "language"
      [] p = P_license -> "license"
      [] p = P_apc -> "apc"
      [] p = P_seal -> "seal"
      [] OTHER -> p

\* the order pivot_table sorts its index (the subjects) in
Rank(s) ==
    CASE s = "http://application.org/beta" -> 1
      [] s = "http://application.org/j1" -> 2
      [] s = "http://application.org/j2" -> 3
      [] s = "s1" -> 4
      [] s = "s2" -> 5
      [] OTHER -> 6

RECURSIVE SortByRank(_)
SortByRank(S) ==
    IF S = {} THEN <<>>
    ELSE LET m == CHOOSE x \in S : \A y \in S : Rank(x) <= Rank(y)
         IN <<m>> \o SortByRank(S \ {m})

\* f"<{self.base_uri}{journal_id}>"
JournalUri(id) ==
    CASE id = "j1" -> "http://application.org/j1"
      [] id = "j2" -> "http://application.org/j2"
      [] id = "beta" -> "http://application.org/beta"
      [] OTHER -> BaseUri

\* re.sub(r'[^a-zA-Z0-9]+', '-', title.lower()).strip('-')
Slug(title) == Lower(title)

(***************************************************************************)
(* JournalUploadHandler: one CSV row becomes the triples of one journal.   *)
(* A literal keeps its datatype in the store: [dt, lex].                   *)
(***************************************************************************)
CsvRows == {
    [issn |-> "j1", eissn |-> "", title |-> "Alpha", publisher |-> "PubA",
     license |-> "CC BY", apc |-> "No", seal |-> "Yes", languages |-> <<"en", "fr">>],
    [issn |-> "", eissn |-> "j2", title |-> "Beta", publisher |-> "",
     license |-> "CC0", apc |-> "Yes", seal |-> "No", languages |-> <<"en">>] }

\* the CSV files of the model: lists of rows
CsvFiles == { SetToSeq(CsvRows) }

JournalUploadHandler_get_id(row) ==
    IF row.issn # "" THEN row.issn
    ELSE IF row.eissn # "" THEN row.eissn
    ELSE IF row.title # "" THEN Slug(row.title)
    ELSE ""

Literal(text) == [dt |-> "string", lex |-> text]
BoolLiteral(b) == [dt |-> "boolean", lex |-> IF b THEN "true" ELSE "false"]
UriRef(u) == [dt |-> "uri", lex |-> u]

\* the triples add_triple appends for one row; the n3 text of a literal is
\* never blank (an empty text renders as two quotes), so every triple is added
RowTriples(row) ==
    LET journal_id == JournalUploadHandler_get_id(row)
        s == JournalUri(journal_id)
    IN IF journal_id = "" THEN {}
       ELSE { [s |-> s, p |-> P_type, o |-> UriRef(C_Journal)],
              [s |-> s, p |-> P_id, o |-> Literal(journal_id)],
              [s |-> s, p |-> P_title, o |-> Literal(row.title)],
              [s |-> s, p |-> P_publisher, o |-> Literal(row.publisher)],
              [s |-> s, p |-> P_license, o |-> Literal(row.license)],
              [s |-> s, p |-> P_apc, o |-> BoolLiteral(Lower(row.apc) = "yes")],
              [s |-> s, p |-> P_seal, o |-> BoolLiteral(Lower(row.seal) = "yes")] }
            \cup { [s |-> s, p |-> P_language, o |-> Literal(row.languages[i])] :
                     i \in 1..Len(row.languages) }

RECURSIVE FileTriples(_)
FileTriples(file) ==
    IF file = <<>> THEN {} ELSE RowTriples(Head(file)) \cup FileTriples(Tail(file))

(***************************************************************************)
(* CategoryUploadHandler: INSERT OR REPLACE under the primary key          *)
(* (issn, category_id, area).                                              *)
(***************************************************************************)
JsonEntries == {
    [identifiers |-> <<"j1">>, categories |-> <<[id |-> "X", quartile |-> "Q1"]>>, areas |-> <<"A1">>],
    [identifiers |-> <<"j2">>, categories |-> <<[id |-> "X", quartile |-> "Q2"]>>, areas |-> <<"A2">>],
    [identifiers |-> <<"j1">>, categories |-> <<[id |-> "Y", quartile |-> "Q2"]>>, areas |-> <<"A1">>],
    [identifiers |-> <<"j1">>, categories |-> <<[id |-> "X", quartile |-> "Q2"]>>, areas |-> <<"A1", "A2">>] }

\* a file that writes one key twice, the second time with a second area too
RewritingFile ==
    << [identifiers |-> <<"j1">>, categories |-> <<[id |-> "X", quartile |-> "Q1"]>>, areas |-> <<"A1">>],
       [identifiers |-> <<"j1">>, categories |-> <<[id |-> "X", quartile |-> "Q2"]>>, areas |-> <<"A1", "A2">>] >>

JsonFiles == { <<e>> : e \in JsonEntries } \cup { <<>>, RewritingFile }

\* a key that leaves the area out
PrimaryKeyWithoutArea(r) == <<r.issn, r.category_id>>

\* PRIMARY KEY (issn, category_id, area)
PrimaryKey(r) == <<r.issn, r.category_id, r.area>>

InsertOrReplace(table, row) ==
    {r \in table : PrimaryKey(r) # PrimaryKey(row)} \cup {row}

\* the rows one journal_entry inserts, in the order of the three nested loops
EntryRows(e) ==
    Flatten([i \in 1..Len(e.identifiers) |->
      Flatten([c \in 1..Len(e.categories) |->
        [a \in 1..Len(e.areas) |->
           [issn |-> e.identifiers[i], category_id |-> e.categories[c].id,
            quartile |-> e.categories[c].quartile, area |-> e.areas[a]]]])])

RECURSIVE InsertAll(_, _)
InsertAll(table, rows) ==
    IF rows = <<>> THEN table
    ELSE InsertAll(InsertOrReplace(table, Head(rows)), Tail(rows))

\* the database before the first upload: no table journal_category in it
NoTable == [created |-> FALSE, rows |-> {}]

\* CREATE TABLE IF NOT EXISTS, then the inserts
CategoryUploadHandler_pushDataToDb(table, file) ==
    [created |-> TRUE,
     rows |-> InsertAll(table.rows, Flatten([k \in 1..Len(file) |-> EntryRows(file[k])]))]


(***************************************************************************)
(* Data frames.                                                            *)
(***************************************************************************)
EmptyFrame == [cols |-> {}, rows |-> <<>>]          \* pd.DataFrame()
IsEmpty(df) == df.rows = <<>> \/ df.cols = {}       \* df.empty
Frame(cols, rows) == [cols |-> cols, rows |-> rows]

\* what a handler call gives the engine: a frame, or an exception
Ok(df) == [exc |-> "none", df |-> df]
Raise(e) == [exc |-> e, df |-> EmptyFrame]

(***************************************************************************)
(* The handlers.  A handler is known by its dbPathOrUrl; the engine never  *)
(* compares handlers, so two handlers on one store are one value here.     *)
(***************************************************************************)
GRAPH_DB_ENDPOINT == "http://localhost:9999/bigdata/sparql"
RELATIONAL_DB_PATH == "relational.db"
DownEndpoint == "http://down.invalid/sparql"
DownPath == "/nonexistent/relational.db"

JournalHandlers == {GRAPH_DB_ENDPOINT, DownEndpoint}
CategoryHandlers == {RELATIONAL_DB_PATH, DownPath}

\* LCASE(STR(text)) contains LCASE(fragment), for the texts of the model
Contains(text, fragment) ==
    \/ Lower(fragment) = ""
    \/ Lower(text) = Lower(fragment)
    \/ <<Lower(text), Lower(fragment)>> \in
          { <<"alpha", "al">>, <<"puba", "pub">>, <<"beta", "eta">> }

LongCols == {"subject", "predicate", "object"}

\* the bindings of "?s ?p ?o" for the subjects in `subjects`, in the order the
\* endpoint lists them: subject by subject, predicate by predicate
Predicates == <<P_type, P_id, P_title, P_publisher, P_license, P_apc, P_seal, P_language>>
Bindings(g, subjects) ==
    LET subj == SortByRank(subjects)
    IN Flatten([k \in 1..Len(subj) |->
          Flatten([m \in 1..Len(Predicates) |->
             SetToSeq({t \in g : t.s = subj[k] /\ t.p = Predicates[m]})])])

\* JournalQueryHandler._query_to_df for a query that matches the subjects in
\* `subjects`: every triple of a matching subject, the object rendered as text;
\* a failure of the endpoint is caught and gives the empty frame
JournalQueryHandler_query_to_df(h, g, subjects) ==
    IF h # GRAPH_DB_ENDPOINT THEN EmptyFrame
    ELSE LET bindings == Bindings(g, subjects)
             data == [i \in 1..Len(bindings) |->
                        [subject |-> bindings[i].s, predicate |-> bindings[i].p,
                         object |-> bindings[i].o.lex]]
         IN IF data = <<>> THEN EmptyFrame ELSE Frame(LongCols, data)

SubjectsWith(g, p, Test(_)) == {t.s : t \in {u \in g : u.p = p /\ Test(u.o)}}

JournalQueryHandler_call(h, g, method, arg) ==
    LET IsArg(o) == o = Literal(arg)
        IsJournal(o) == o = UriRef(C_Journal)
        HasFragment(o) == Contains(o.lex, arg)
        IsText(o) == o.lex = arg
        IsTrue(o) == o = BoolLiteral(TRUE)
    IN CASE method = "getById" ->
              JournalQueryHandler_query_to_df(h, g, SubjectsWith(g, P_id, IsArg))
         [] method = "getAllJournals" ->
              JournalQueryHandler_query_to_df(h, g, SubjectsWith(g, P_type, IsJournal))
         [] method = "getJournalsWithTitle" ->
              JournalQueryHandler_query_to_df(h, g, SubjectsWith(g, P_title, HasFragment))
         [] method = "getJournalsPublishedBy" ->
              JournalQueryHandler_query_to_df(h, g, SubjectsWith(g, P_publisher, HasFragment))
         [] method = "getJournalsWithLicense" ->
              JournalQueryHandler_query_to_df(h, g, SubjectsWith(g, P_license, IsText))
         [] method = "getJournalsWithAPC" ->
              JournalQueryHandler_query_to_df(h, g, SubjectsWith(g, P_apc, IsTrue))
         [] method = "getJournalsWithDOAJSeal" ->
              JournalQueryHandler_query_to_df(h, g, SubjectsWith(g, P_seal, IsTrue))

CategoryCols == {"category_id", "quartile", "area"}
AreaCols == {"area"}
LinkCols == {"issn", "category_id"}

\* CategoryQueryHandler._execute_query: sqlite3 / pandas raise when the
\* database cannot be read, and nothing catches it
CategoryQueryHandler_execute_query(h, table, cols, rows) ==
    IF h # RELATIONAL_DB_PATH \/ ~table.created THEN Raise("DatabaseError")
    ELSE Ok(Frame(cols, rows))

CategoryRow(r) == [category_id |-> r.category_id, quartile |-> r.quartile, area |-> r.area]
AreaRow(r) == [area |-> r.area]
LinkRow(r) == [issn |-> r.issn, category_id |-> r.category_id]

\* the rows of the table that satisfy Where, in the order the backend scans them
TableScan(table, Where(_)) == SetToSeq({r \in table.rows : Where(r)})

SelectDistinctCategories(h, table, Where(_)) ==
    LET scan == TableScan(table, Where)
    IN CategoryQueryHandler_execute_query(h, table, CategoryCols,
          Unique([i \in 1..Len(scan) |-> CategoryRow(scan[i])]))

SelectDistinctAreas(h, table, Where(_)) ==
    LET scan == TableScan(table, Where)
    IN CategoryQueryHandler_execute_query(h, table, AreaCols,
          Unique([i \in 1..Len(scan) |-> AreaRow(scan[i])]))

CategoryQueryHandler_call(h, table, method, arg) ==
    LET All(r) == TRUE
        IsId(r) == r.category_id = arg
        InQuartiles(r) == arg = {} \/ r.quartile \in arg
        InAreas(r) == arg = {} \/ r.area \in arg
        InCategories(r) == arg = {} \/ r.category_id \in arg
    IN CASE method = "getById" -> SelectDistinctCategories(h, table, IsId)
         [] method = "getAllCategories" -> SelectDistinctCategories(h, table, All)
         [] method = "getAllAreas" -> SelectDistinctAreas(h, table, All)
         [] method = "getCategoriesWithQuartile" -> SelectDistinctCategories(h, table, InQuartiles)
         [] method = "getCategoriesAssignedToAreas" -> SelectDistinctCategories(h, table, InAreas)
         [] method = "getAreasAssignedToCategories" -> SelectDistinctAreas(h, table, InCategories)
         [] method = "getCategoryLinks" ->
              LET scan == TableScan(table, All)
              IN CategoryQueryHandler_execute_query(h, table, LinkCols,
                    [i \in 1..Len(scan) |-> LinkRow(scan[i])])

(***************************************************************************)
(* BasicQueryEngine: combine, normalise, map.                              *)
(***************************************************************************)
\* pd.concat(dfs) alone: the rows of every handler, duplicates kept
ConcatOnly(dfs) ==
    Frame(UNION {dfs[i].cols : i \in 1..Len(dfs)},
          Flatten([i \in 1..Len(dfs) |-> dfs[i].rows]))

\* pd.concat(dfs).drop_duplicates().reset_index(drop=True)
ConcatDropDuplicates(dfs) ==
    Frame(UNION {dfs[i].cols : i \in 1..Len(dfs)},
          Unique(Flatten([i \in 1..Len(dfs) |-> dfs[i].rows])))

\* _get_combined_df on the handlers' results, in registration order
BasicQueryEngine_get_combined_df(results) ==
    IF results = <<>> THEN Ok(EmptyFrame)
    ELSE IF \E i \in 1..Len(results) : results[i].exc # "none"
         THEN results[CHOOSE i \in 1..Len(results) :
                         /\ results[i].exc # "none"
                         /\ \A k \in 1..(i - 1) : results[k].exc = "none"]
         ELSE Ok(ConcatDropDuplicates([i \in 1..Len(results) |-> results[i].df]))

CombinedJournalDf(reg, g, method, arg) ==
    BasicQueryEngine_get_combined_df(
        [i \in 1..Len(reg) |-> Ok(JournalQueryHandler_call(reg[i], g, method, arg))])

CombinedCategoryDf(reg, table, method, arg) ==
    BasicQueryEngine_get_combined_df(
        [i \in 1..Len(reg) |-> CategoryQueryHandler_call(reg[i], table, method, arg)])

\* agg inside _df_to_wide: the distinct objects of one (subject, predicate) group
Agg(x) ==
    LET uniq == Unique(x)
    IN IF Len(uniq) = 1 THEN Scalar(uniq[1]) ELSE ListOf(uniq)

BasicQueryEngine_df_to_wide(df) ==
    IF IsEmpty(df) THEN EmptyFrame
    ELSE LET subjects == SortByRank({df.rows[i].subject : i \in 1..Len(df.rows)})
             preds == {df.rows[i].predicate : i \in 1..Len(df.rows)}
             Group(s, c) ==
                 LET InGroup(r) == r.subject = s /\ LocalName(r.predicate) = c
                     g == SelectSeq(df.rows, InGroup)
                 IN [i \in 1..Len(g) |-> g[i].object]
             cols == {"uri"} \cup {LocalName(p) : p \in preds}
         IN Frame(cols,
               [i \in 1..Len(subjects) |->
                  [c \in cols |->
                     IF c = "uri" THEN Scalar(subjects[i])
                     ELSE IF Group(subjects[i], c) = <<>> THEN NaN
                     ELSE Agg(Group(subjects[i], c))]])


(***************************************************************************)
(* Entities, and what a query gives its caller: a value or an exception.   *)
(* An optional entity field (publisher, area) is <<>> or <<entity>>.       *)
(***************************************************************************)
Returned(v) == [exc |-> "none", val |-> v]
Raised(e) == [exc |-> e, val |-> <<>>]

Area(a) == [kind |-> "Area", ids |-> <<a>>, name |-> a]
Category(c, q, a) ==
    [kind |-> "Category", ids |-> <<c>>, title |-> c, quartile |-> q, area |-> <<Area(a)>>]
Publisher(cell) == [kind |-> "Publisher", ids |-> cell.vals, name |-> cell]
Journal(idCell, title, publisher, languages, seal, licence, apc) ==
    [kind |-> "Journal", ids |-> idCell.vals, title |-> title, publisher |-> publisher,
     languages |-> languages, seal |-> seal, licence |-> licence, apc |-> apc,
     categories |-> <<>>]

RowGet(df, row, c) == IF c \in df.cols THEN row[c] ELSE PyNone    \* row.get(c)
NotNa(c) == c.kind \notin {"nan", "none"}                         \* pd.notna(c)
Truthy(c) ==
    CASE c.kind = "scalar" -> c.vals[1] # ""
      [] c.kind = "list" -> c.vals # <<>>
      [] c.kind = "nan" -> TRUE
      [] OTHER -> FALSE

\* the body of the loop of _wide_df_to_journals for one row
JournalOfRow(df, row) ==
    LET pub_name == RowGet(df, row, "publisher")
        langCell == RowGet(df, row, "language")
        langs == IF "language" \notin df.cols THEN <<>>
                 ELSE IF langCell.kind = "list" THEN langCell.vals
                 ELSE IF NotNa(langCell) THEN langCell.vals ELSE <<>>
        j_id == RowGet(df, row, "id")
    IN IF pub_name.kind = "list" THEN Raised("ValueError")
       ELSE IF j_id.kind \notin {"scalar", "list"} THEN Raised("TypeError")
       ELSE Returned(Journal(
                j_id,
                RowGet(df, row, "title"),
                IF Truthy(pub_name) /\ NotNa(pub_name) THEN <<Publisher(pub_name)>> ELSE <<>>,
                langs,
                Lower(PyStr(RowGet(df, row, "seal"))) = "true",
                RowGet(df, row, "license"),
                Lower(PyStr(RowGet(df, row, "apc"))) = "true"))

BasicQueryEngine_wide_df_to_journals(wide_frame) ==
    IF IsEmpty(wide_frame) THEN Returned(<<>>)
    ELSE LET outs == [i \in 1..Len(wide_frame.rows) |-> JournalOfRow(wide_frame, wide_frame.rows[i])]
         IN IF \E i \in 1..Len(outs) : outs[i].exc # "none"
            THEN outs[CHOOSE i \in 1..Len(outs) :
                        /\ outs[i].exc # "none"
                        /\ \A k \in 1..(i - 1) : outs[k].exc = "none"]
            ELSE Returned([i \in 1..Len(outs) |-> outs[i].val])

BasicQueryEngine_df_to_categories(df) ==
    Returned([i \in 1..Len(df.rows) |->
                Category(df.rows[i].category_id, df.rows[i].quartile, df.rows[i].area)])

BasicQueryEngine_df_to_areas(df) ==
    IF "area" \notin df.cols THEN Raised("KeyError")
    ELSE Returned([i \in 1..Len(df.rows) |-> Area(df.rows[i].area)])

(***************************************************************************)
(* The query operations of BasicQueryEngine, as functions of the           *)
(* registries and the stores.                                              *)
(***************************************************************************)
JournalListQuery(jreg, g, method, arg) ==
    BasicQueryEngine_wide_df_to_journals(
        BasicQueryEngine_df_to_wide(CombinedJournalDf(jreg, g, method, arg).df))

CategoryListQuery(creg, table, method, arg) ==
    LET c == CombinedCategoryDf(creg, table, method, arg)
    IN IF c.exc # "none" THEN Raised(c.exc) ELSE BasicQueryEngine_df_to_categories(c.df)

AreaListQuery(creg, table, method, arg) ==
    LET c == CombinedCategoryDf(creg, table, method, arg)
    IN IF c.exc # "none" THEN Raised(c.exc) ELSE BasicQueryEngine_df_to_areas(c.df)

\* getEntityById: val is <<entity>>, or <<>> for None
BasicQueryEngine_getEntityById(jreg, creg, g, table, id) ==
    LET dj == CombinedJournalDf(jreg, g, "getById", id).df
    IN IF ~IsEmpty(dj)
       THEN LET m == BasicQueryEngine_wide_df_to_journals(BasicQueryEngine_df_to_wide(dj))
            IN IF m.exc # "none" THEN m ELSE Returned(<<m.val[1]>>)
       ELSE LET dc == CombinedCategoryDf(creg, table, "getById", id)
            IN IF dc.exc # "none" THEN Raised(dc.exc)
               ELSE IF ~IsEmpty(dc.df)
                    THEN Returned(<<BasicQueryEngine_df_to_categories(dc.df).val[1]>>)
                    ELSE Returned(<<>>)

(***************************************************************************)
(* FullQueryEngine: the three compound queries.                            *)
(***************************************************************************)
\* df.rename(columns={from: to})
Rename(df, from, to) ==
    IF from \notin df.cols THEN df
    ELSE LET cols == (df.cols \ {from}) \cup {to}
         IN Frame(cols, [i \in 1..Len(df.rows) |->
                           [c \in cols |-> IF c = to THEN df.rows[i][from] ELSE df.rows[i][c]]])

\* df[df[col].isin(values)] on a frame of plain texts (the category side)
WhereIsin(df, col, values) ==
    LET Keep(r) == r[col] \in values
    IN Frame(df.cols, SelectSeq(df.rows, Keep))

\* the filter without its "if values:" test
FilterAlways(df, col, values) == WhereIsin(df, col, values)

\* "if values: df = df[df[col].isin(values)]": the empty set leaves the frame alone
FilterIfGiven(df, col, values) ==
    IF values # {} THEN WhereIsin(df, col, values) ELSE df

\* df[df[col].isin(values)] on a wide frame: a NaN cell is in no set
WhereCellIsin(df, col, values) ==
    LET Keep(r) == r[col].kind = "scalar" /\ r[col].vals[1] \in values
    IN Frame(df.cols, SelectSeq(df.rows, Keep))

HasListCell(df, col) == \E i \in 1..Len(df.rows) : df.rows[i][col].kind = "list"

\* set(df['category_id'])
CategoryIdSet(df) == {df.rows[i].category_id : i \in 1..Len(df.rows)}

\* pd.merge(left, links, on='issn'): inner join, in the order of the left rows
Merge(left, links) ==
    LET cols == left.cols \cup {"category_id"}
        Matches(l) ==
            LET Same(r) == l["issn"] = Scalar(r.issn)
                m == SelectSeq(links.rows, Same)
            IN [k \in 1..Len(m) |->
                  [c \in cols |-> IF c = "category_id" THEN Scalar(m[k].category_id) ELSE l[c]]]
    IN Frame(cols, Flatten([i \in 1..Len(left.rows) |-> Matches(left.rows[i])]))

\* the tail the three queries share: filter the links, join, map
JoinAndMap(journals_wide, links, target_cat_ids) ==
    LET filtered_links == WhereIsin(links, "category_id", target_cat_ids)
        renamed == Rename(journals_wide, "id", "issn")
    IN IF "issn" \notin renamed.cols THEN Returned(<<>>)
       ELSE IF "issn" \notin links.cols THEN Raised("KeyError")
       ELSE IF HasListCell(renamed, "issn") THEN Raised("TypeError")
       ELSE BasicQueryEngine_wide_df_to_journals(
                Rename(Merge(renamed, filtered_links), "issn", "id"))

FullQueryEngine_getJournalsInCategoriesWithQuartile(jreg, creg, g, table, category_ids, quartiles) ==
    LET journal_df_long == CombinedJournalDf(jreg, g, "getAllJournals", {}).df
        journals_df_wide == BasicQueryEngine_df_to_wide(journal_df_long)
        links == CombinedCategoryDf(creg, table, "getCategoryLinks", {})
        cats == CombinedCategoryDf(creg, table, "getAllCategories", {})
        target == FilterIfGiven(FilterIfGiven(cats.df, "category_id", category_ids),
                                "quartile", quartiles)
    IN IF IsEmpty(journal_df_long) THEN Returned(<<>>)
       ELSE IF links.exc # "none" THEN Raised(links.exc)
       ELSE IF IsEmpty(links.df) THEN Returned(<<>>)
       ELSE IF cats.exc # "none" THEN Raised(cats.exc)
       ELSE IF "category_id" \notin cats.df.cols THEN Raised("KeyError")
       ELSE JoinAndMap(journals_df_wide, links.df, CategoryIdSet(target))

FullQueryEngine_getJournalsInAreasWithLicense(jreg, creg, g, table, area_ids, licenses) ==
    LET journal_df_long == CombinedJournalDf(jreg, g, "getAllJournals", {}).df
        wide == BasicQueryEngine_df_to_wide(journal_df_long)
        journals_df_wide == IF licenses # {} /\ "license" \in wide.cols
                            THEN WhereCellIsin(wide, "license", licenses) ELSE wide
        links == CombinedCategoryDf(creg, table, "getCategoryLinks", {})
        cats == CombinedCategoryDf(creg, table, "getAllCategories", {})
    IN IF IsEmpty(journal_df_long) THEN Returned(<<>>)
       ELSE IF licenses # {} /\ "license" \notin wide.cols THEN Raised("KeyError")
       ELSE IF licenses # {} /\ HasListCell(wide, "license") THEN Raised("TypeError")
       ELSE IF area_ids = {} THEN BasicQueryEngine_wide_df_to_journals(journals_df_wide)
       ELSE IF links.exc # "none" THEN Raised(links.exc)
       ELSE IF cats.exc # "none" THEN Raised(cats.exc)
       ELSE IF "area" \notin cats.df.cols THEN Raised("KeyError")
       ELSE JoinAndMap(journals_df_wide, links.df,
                       CategoryIdSet(WhereIsin(cats.df, "area", area_ids)))

FullQueryEngine_getDiamondJournalsInAreasAndCategoriesWithQuartile(jreg, creg, g, table, area_ids, category_ids, quartiles) ==
    LET journal_df_long == CombinedJournalDf(jreg, g, "getAllJournals", {}).df
        journals_df_wide == BasicQueryEngine_df_to_wide(journal_df_long)
        IsFalse(r) == PyEq(r["apc"], PyBool(FALSE))
        diamond_journals_df == Frame(journals_df_wide.cols, SelectSeq(journals_df_wide.rows, IsFalse))
        links == CombinedCategoryDf(creg, table, "getCategoryLinks", {})
        cats == CombinedCategoryDf(creg, table, "getAllCategories", {})
        target == FilterIfGiven(FilterIfGiven(FilterIfGiven(cats.df, "area", area_ids),
                                              "category_id", category_ids),
                                "quartile", quartiles)
    IN IF IsEmpty(journal_df_long) THEN Returned(<<>>)
       ELSE IF "apc" \notin journals_df_wide.cols THEN Raised("KeyError")
       ELSE IF links.exc # "none" THEN Raised(links.exc)
       ELSE IF cats.exc # "none" THEN Raised(cats.exc)
       ELSE IF "category_id" \notin cats.df.cols THEN Raised("KeyError")
       ELSE JoinAndMap(diamond_journals_df, links.df, CategoryIdSet(target))


(***************************************************************************)
(* The arguments the callers of the model pass.                            *)
(***************************************************************************)
Ids == {"j1", "X", "zz"}
TitleFragments == {"AL", "zz"}
PublisherFragments == {"Pub"}
LicenceTexts == {"CC BY"}
AllCategoryIds == {"X", "Y"}
AllQuartiles == {"Q1", "Q2"}
AllAreas == {"A1", "A2"}
AllLicences == {"CC BY", "CC0"}
CategorySets == {{}, {"X"}, AllCategoryIds}
QuartileSets == {{}, {"Q1"}, AllQuartiles}
AreaSets == {{}, {"A1"}, AllAreas}
LicenceSets == {{}, {"CC BY"}, AllLicences}
DiamondArgs == { <<{}, {}, {}>>, <<{"A1"}, {}, {"Q1"}>>, <<{"A1"}, {}, {"Q2"}>>,
                 <<AllAreas, {"X"}, {}>>, <<{}, AllCategoryIds, AllQuartiles>> }

\* the caller holds no result: the engine is between two calls
Idle == [op |-> "idle", args |-> <<>>, exc |-> "none", val |-> <<>>]
Call(op, args, out) == [op |-> op, args |-> args, exc |-> out.exc, val |-> out.val]
Done(op) == [op |-> op, args |-> <<>>, exc |-> "none", val |-> <<>>]   \* returned True
DoneWith(op, args) == [op |-> op, args |-> args, exc |-> "none", val |-> <<>>]

(***************************************************************************)
(* Initial state: empty stores, a fresh engine, no call made yet.          *)
(***************************************************************************)
PipeIdle ==
    /\ long_df = EmptyFrame
    /\ wide_df = EmptyFrame
    /\ journals = Returned(<<>>)
    /\ entity = Returned(<<>>)

Init ==
    /\ graph = {}
    /\ journal_category = NoTable
    /\ journalQuery = <<>>
    /\ categoryQuery = <<>>
    /\ ret = Idle
    /\ PipeIdle

(***************************************************************************)
(* The caller: single-threaded and synchronous, it takes the value a call  *)
(* returned before it makes the next call.                                 *)
(***************************************************************************)
CallerProceeds ==
    /\ ret # Idle
    /\ ret' = Idle
    /\ UNCHANGED <<graph, journal_category, journalQuery, categoryQuery, pipeVars>>

(***************************************************************************)
(* Store updates.                                                          *)
(***************************************************************************)
JournalUploadHandler_pushDataToDb ==
    \E file \in CsvFiles :
        /\ ret = Idle
        /\ graph' = graph \cup FileTriples(file)
        /\ ret' = Done("JournalUploadHandler.pushDataToDb")
        /\ UNCHANGED <<journal_category, journalQuery, categoryQuery, pipeVars>>

CategoryUploadHandler_pushData ==
    \E file \in JsonFiles :
        /\ ret = Idle
        /\ journal_category' = CategoryUploadHandler_pushDataToDb(journal_category, file)
        /\ ret' = DoneWith("CategoryUploadHandler.pushDataToDb", <<file>>)
        /\ UNCHANGED <<graph, journalQuery, categoryQuery, pipeVars>>

(***************************************************************************)
(* Registry operations.                                                    *)
(***************************************************************************)
\* a registration that skips a handler the registry already holds
addJournalHandlerOnce ==
    \E h \in JournalHandlers :
        /\ ret = Idle
        /\ Len(journalQuery) + Len(categoryQuery) < MaxHandlers
        /\ journalQuery' = IF h \in Range(journalQuery) THEN journalQuery
                           ELSE Append(journalQuery, h)
        /\ ret' = DoneWith("addJournalHandler", <<h>>)
        /\ UNCHANGED <<graph, journal_category, categoryQuery, pipeVars>>

\* self.journalQuery.append(handler)
addJournalHandler ==
    \E h \in JournalHandlers :
        /\ ret = Idle
        /\ Len(journalQuery) + Len(categoryQuery) < MaxHandlers
        /\ journalQuery' = Append(journalQuery, h)
        /\ ret' = DoneWith("addJournalHandler", <<h>>)
        /\ UNCHANGED <<graph, journal_category, categoryQuery, pipeVars>>

addCategoryHandler ==
    \E h \in CategoryHandlers :
        /\ ret = Idle
        /\ Len(journalQuery) + Len(categoryQuery) < MaxHandlers
        /\ categoryQuery' = Append(categoryQuery, h)
        /\ ret' = DoneWith("addCategoryHandler", <<h>>)
        /\ UNCHANGED <<graph, journal_category, journalQuery, pipeVars>>

cleanJournalHandlers ==
    /\ ret = Idle
    /\ journalQuery' = <<>>
    /\ ret' = Done("cleanJournalHandlers")
    /\ UNCHANGED <<graph, journal_category, categoryQuery, pipeVars>>

cleanCategoryHandlers ==
    /\ ret = Idle
    /\ categoryQuery' = <<>>
    /\ ret' = Done("cleanCategoryHandlers")
    /\ UNCHANGED <<graph, journal_category, journalQuery, pipeVars>>

(***************************************************************************)
(* The query operations as functions of the engine's state at the call.    *)
(***************************************************************************)
EvalQuery(jreg, creg, g, table, op, args) ==
    CASE op = "getEntityById" ->
           BasicQueryEngine_getEntityById(jreg, creg, g, table, args[1])
      [] op \in {"getAllJournals", "getJournalsWithAPC", "getJournalsWithDOAJSeal"} ->
           JournalListQuery(jreg, g, op, {})
      [] op \in {"getJournalsWithTitle", "getJournalsPublishedBy", "getJournalsWithLicense"} ->
           JournalListQuery(jreg, g, op, args[1])
      [] op = "getAllCategories" -> CategoryListQuery(creg, table, op, {})
      [] op \in {"getCategoriesWithQuartile", "getCategoriesAssignedToAreas"} ->
           CategoryListQuery(creg, table, op, args[1])
      [] op = "getAllAreas" -> AreaListQuery(creg, table, op, {})
      [] op = "getAreasAssignedToCategories" -> AreaListQuery(creg, table, op, args[1])
      [] op = "getJournalsInCategoriesWithQuartile" ->
           FullQueryEngine_getJournalsInCategoriesWithQuartile(jreg, creg, g, table, args[1], args[2])
      [] op = "getJournalsInAreasWithLicense" ->
           FullQueryEngine_getJournalsInAreasWithLicense(jreg, creg, g, table, args[1], args[2])
      [] op = "getDiamondJournalsInAreasAndCategoriesWithQuartile" ->
           FullQueryEngine_getDiamondJournalsInAreasAndCategoriesWithQuartile(
               jreg, creg, g, table, args[1], args[2], args[3])

\* a query changes nothing but the value it returns
Result(op, args) ==
    Call(op, args, EvalQuery(journalQuery, categoryQuery, graph, journal_category, op, args))

\* a query that uses its handlers up: it empties the bibliographic registry
QueryConsuming(op, args) ==
    /\ ret = Idle
    /\ ret' = Result(op, args)
    /\ journalQuery' = <<>>
    /\ UNCHANGED <<graph, journal_category, categoryQuery, pipeVars>>

Query(op, args) ==
    /\ ret = Idle
    /\ ret' = Result(op, args)
    /\ UNCHANGED <<graph, journal_category, journalQuery, categoryQuery, pipeVars>>

getEntityById == \E id \in Ids : Query("getEntityById", <<id>>)

getAllJournals == Query("getAllJournals", <<>>)

getJournalsWithTitle == \E t \in TitleFragments : Query("getJournalsWithTitle", <<t>>)

getJournalsPublishedBy == \E t \in PublisherFragments : Query("getJournalsPublishedBy", <<t>>)

getJournalsWithLicense == \E t \in LicenceTexts : Query("getJournalsWithLicense", <<t>>)

getJournalsWithAPC == Query("getJournalsWithAPC", <<>>)

getJournalsWithDOAJSeal == Query("getJournalsWithDOAJSeal", <<>>)

getAllCategories == Query("getAllCategories", <<>>)

getAllAreas == Query("getAllAreas", <<>>)

getCategoriesWithQuartile == \E q \in QuartileSets : Query("getCategoriesWithQuartile", <<q>>)

getCategoriesAssignedToAreas == \E a \in AreaSets : Query("getCategoriesAssignedToAreas", <<a>>)

getAreasAssignedToCategories == \E c \in CategorySets : Query("getAreasAssignedToCategories", <<c>>)

getJournalsInCategoriesWithQuartile == \E c \in CategorySets, q \in QuartileSets : Query("getJournalsInCategoriesWithQuartile", <<c, q>>)

getJournalsInAreasWithLicense == \E a \in AreaSets, l \in LicenceSets : Query("getJournalsInAreasWithLicense", <<a, l>>)

getDiamondJournalsInAreasAndCategoriesWithQuartile == \E d \in DiamondArgs : Query("getDiamondJournalsInAreasAndCategoriesWithQuartile", d)

Next ==
    \/ CallerProceeds
    \/ JournalUploadHandler_pushDataToDb
    \/ CategoryUploadHandler_pushData
    \/ addJournalHandler
    \/ addCategoryHandler
    \/ cleanJournalHandlers
    \/ cleanCategoryHandlers
    \/ getEntityById
    \/ getAllJournals
    \/ getJournalsWithTitle
    \/ getJournalsPublishedBy
    \/ getJournalsWithLicense
    \/ getJournalsWithAPC
    \/ getJournalsWithDOAJSeal
    \/ getAllCategories
    \/ getAllAreas
    \/ getCategoriesWithQuartile
    \/ getCategoriesAssignedToAreas
    \/ getAreasAssignedToCategories
    \/ getJournalsInCategoriesWithQuartile
    \/ getJournalsInAreasWithLicense
    \/ getDiamondJournalsInAreasAndCategoriesWithQuartile

Spec == Init /\ [][Next]_vars


(***************************************************************************)
(* The normaliser and the journal mapper on their own: a long relation is  *)
(* drawn, _df_to_wide normalises it, _wide_df_to_journals maps the result. *)
(***************************************************************************)
PipeRows == {
    [subject |-> "s1", predicate |-> P_id, object |-> "j1"],
    [subject |-> "s1", predicate |-> P_title, object |-> "Alpha"],
    [subject |-> "s1", predicate |-> P_language, object |-> "en"],
    [subject |-> "s1", predicate |-> P_language, object |-> "fr"],
    [subject |-> "s1", predicate |-> P_apc, object |-> "True"],
    [subject |-> "s1", predicate |-> P_seal, object |-> "true"],
    [subject |-> "s2", predicate |-> P_id, object |-> "j2"],
    [subject |-> "s2", predicate |-> P_apc, object |-> "false"],
    [subject |-> "s1", predicate |-> P_apc, object |-> "false"],
    [subject |-> "s2", predicate |-> P_seal, object |-> "TRUE"] }

LongRelations == UNION { [1..n -> PipeRows] : n \in 0..MaxLongRows }

\* pd.DataFrame(data): no columns when data is empty
LongFrame(rows) == IF rows = <<>> THEN EmptyFrame ELSE Frame(LongCols, rows)

InitPipe ==
    /\ graph = {}
    /\ journal_category = NoTable
    /\ journalQuery = <<>>
    /\ categoryQuery = <<>>
    /\ ret = Idle
    /\ long_df \in {LongFrame(rows) : rows \in LongRelations}
    /\ wide_df = EmptyFrame
    /\ journals = Returned(<<>>)
    /\ entity = Returned(<<>>)

df_to_wide ==
    /\ ret = Idle
    /\ wide_df' = BasicQueryEngine_df_to_wide(long_df)
    /\ ret' = Done("_df_to_wide")
    /\ UNCHANGED <<graph, journal_category, journalQuery, categoryQuery, long_df, journals, entity>>

wide_df_to_journals ==
    /\ ret = Done("_df_to_wide")
    /\ journals' = BasicQueryEngine_wide_df_to_journals(wide_df)
    /\ ret' = Done("_wide_df_to_journals")
    /\ UNCHANGED <<graph, journal_category, journalQuery, categoryQuery, long_df, wide_df, entity>>

NextPipe ==
    \/ df_to_wide
    \/ wide_df_to_journals

SpecPipe == InitPipe /\ [][NextPipe]_vars


(***************************************************************************)
(* The data model classes used directly: a caller constructs an entity     *)
(* from an identifier (a text, or a collection of texts) and, for a        *)
(* Journal, adds Category objects to it.  Objects have identity: two       *)
(* Category objects with equal fields are two objects (oid).               *)
(***************************************************************************)
\* IdentifiableEntity.__init__: [identifier] for a str, list(identifier) otherwise
IdentifiableEntity(identifier) ==
    IF identifier.kind = "scalar" THEN Returned(identifier.vals)
    ELSE IF identifier.kind = "list" THEN Returned(identifier.vals)
    ELSE Raised("TypeError")

EntityKinds == {"Area", "Category", "Publisher", "Journal"}
IdentifierInputs == {Scalar("j1"), ListOf(<<"j1", "j2">>), ListOf(<<>>), PyNone}

\* Area(i, "n"), Category(i, "t"), Publisher(i, "n"), Journal(i, "Alpha")
New(kind, identifier) ==
    LET init == IdentifiableEntity(identifier)
    IN IF init.exc # "none" THEN init
       ELSE Returned(<<
              CASE kind = "Area" -> [kind |-> kind, ids |-> init.val, name |-> "n"]
                [] kind = "Category" ->
                     [kind |-> kind, ids |-> init.val, title |-> "t", quartile |-> PyNone,
                      area |-> <<>>]
                [] kind = "Publisher" -> [kind |-> kind, ids |-> init.val, name |-> "n"]
                [] kind = "Journal" ->
                     Journal(identifier, Scalar("Alpha"), <<>>, <<>>, FALSE, Scalar(""), FALSE) >>)

\* the Category objects a caller holds: the first two have equal fields
CategoryObjects ==
    { [oid |-> "c1", category |-> Category("X", "Q1", "A1")],
      [oid |-> "c2", category |-> Category("X", "Q1", "A1")],
      [oid |-> "c3", category |-> Category("Y", "Q2", "A1")],
      [oid |-> "c4", category |-> Category("X", "Q2", "A2")] }

\* addCategory without its membership test
Journal_addCategoryAlways(j, c) ==
    [j EXCEPT !.categories = Append(j.categories, c)]

\* Journal.addCategory: "category not in self._categories" compares objects
Journal_addCategory(j, c) ==
    IF c \notin Range(j.categories)
    THEN [j EXCEPT !.categories = Append(j.categories, c)]
    ELSE j

InitEntity ==
    /\ graph = {}
    /\ journal_category = NoTable
    /\ journalQuery = <<>>
    /\ categoryQuery = <<>>
    /\ ret = Idle
    /\ long_df = EmptyFrame
    /\ wide_df = EmptyFrame
    /\ journals = Returned(<<>>)
    /\ entity = Returned(<<>>)

construct ==
    \E kind \in EntityKinds, identifier \in IdentifierInputs :
        /\ entity' = New(kind, identifier)
        /\ ret' = [op |-> kind, args |-> <<identifier>>, exc |-> New(kind, identifier).exc,
                   val |-> <<>>]
        /\ UNCHANGED <<graph, journal_category, journalQuery, categoryQuery,
                       long_df, wide_df, journals>>

addCategory ==
    \E c \in CategoryObjects :
        /\ entity.exc = "none"
        /\ entity.val # <<>>
        /\ entity.val[1].kind = "Journal"
        /\ entity' = Returned(<<Journal_addCategory(entity.val[1], c)>>)
        /\ ret' = DoneWith("addCategory", <<c>>)
        /\ UNCHANGED <<graph, journal_category, journalQuery, categoryQuery,
                       long_df, wide_df, journals>>

NextEntity ==
    \/ construct
    \/ addCategory

SpecEntity == InitEntity /\ [][NextEntity]_vars


(***************************************************************************)
(* What the stores hold, read directly (not through the engine).           *)
(***************************************************************************)
QueryOps ==
    {"getEntityById", "getAllJournals", "getJournalsWithTitle", "getJournalsPublishedBy",
     "getJournalsWithLicense", "getJournalsWithAPC", "getJournalsWithDOAJSeal",
     "getAllCategories", "getAllAreas", "getCategoriesWithQuartile",
     "getCategoriesAssignedToAreas", "getAreasAssignedToCategories",
     "getJournalsInCategoriesWithQuartile", "getJournalsInAreasWithLicense",
     "getDiamondJournalsInAreasAndCategoriesWithQuartile"}
JournalListOps ==
    {"getAllJournals", "getJournalsWithTitle", "getJournalsPublishedBy",
     "getJournalsWithLicense", "getJournalsWithAPC", "getJournalsWithDOAJSeal"}
CategoryListOps ==
    {"getAllCategories", "getAllAreas", "getCategoriesWithQuartile",
     "getCategoriesAssignedToAreas", "getAreasAssignedToCategories"}
CompoundOps ==
    {"getJournalsInCategoriesWithQuartile", "getJournalsInAreasWithLicense",
     "getDiamondJournalsInAreasAndCategoriesWithQuartile"}

\* the identifiers of the entities of a returned list
IdSet(val) == UNION {Range(val[i].ids) : i \in 1..Len(val)}

StoreJournalIds == {t.o.lex : t \in {u \in graph : u.p = P_id}}
StoreValue(j, p) ==
    {t.o : t \in {u \in graph : u.p = p /\ [s |-> u.s, p |-> P_id, o |-> Literal(j)] \in graph}}
StoreLicences == {t.o.lex : t \in {u \in graph : u.p = P_license}}
StoreCategoryIds == {r.category_id : r \in journal_category.rows}
StoreQuartiles == {r.quartile : r \in journal_category.rows}
StoreAreas == {r.area : r \in journal_category.rows}

\* a reachable store of each kind is registered, and no unreachable one, and
\* the relational table exists
Healthy ==
    /\ Range(journalQuery) = {GRAPH_DB_ENDPOINT}
    /\ Range(categoryQuery) = {RELATIONAL_DB_PATH}
    /\ journal_category.created

In(x, S) == S = {} \/ x \in S
SameSet(A, B) == A \subseteq B /\ B \subseteq A

(***************************************************************************)
(* C1: getJournalsInCategoriesWithQuartile(C, Q) returns a journal exactly *)
(* when the journal is in the bibliographic store and one link row of the  *)
(* categorical store carries its identifier, a category id in C (any when  *)
(* C is empty) and, on the same row, a quartile in Q (any when Q is empty).*)
(***************************************************************************)
SameRowJournals(C, Q) ==
    {j \in StoreJournalIds :
        \E r \in journal_category.rows :
            r.issn = j /\ In(r.category_id, C) /\ In(r.quartile, Q)}

C1_JoinCompleteness ==
    (ret.op = "getJournalsInCategoriesWithQuartile" /\ Healthy) =>
        /\ ret.exc = "none"
        /\ SameSet(IdSet(ret.val), SameRowJournals(ret.args[1], ret.args[2]))

(***************************************************************************)
(* C2: a journal whose link rows satisfy the area, category and quartile   *)
(* filters is returned by getDiamondJournalsInAreasAndCategoriesWithQuartile*)
(* exactly when its stored apc is false.                                   *)
(***************************************************************************)
SameRowDiamondJournals(A, C, Q) ==
    {j \in StoreJournalIds :
        \E r \in journal_category.rows :
            r.issn = j /\ In(r.area, A) /\ In(r.category_id, C) /\ In(r.quartile, Q)}

C2_DiamondDefinition ==
    (ret.op = "getDiamondJournalsInAreasAndCategoriesWithQuartile" /\ Healthy) =>
        /\ ret.exc = "none"
        /\ \A j \in SameRowDiamondJournals(ret.args[1], ret.args[2], ret.args[3]) :
               j \in IdSet(ret.val) <=> StoreValue(j, P_apc) = {BoolLiteral(FALSE)}

(***************************************************************************)
(* C10: getJournalsInAreasWithLicense(A, L) returns the journals whose     *)
(* licence is in L (any licence when L is empty) and, when A is not empty, *)
(* that have a link row whose area is in A; with A empty the licence       *)
(* filtered journals are returned without a join.                          *)
(***************************************************************************)
LicensedJournals(L) ==
    {j \in StoreJournalIds : \E o \in StoreValue(j, P_license) : In(o.lex, L)}

AreaLicenceJournals(A, L) ==
    {j \in LicensedJournals(L) :
        A = {} \/ \E r \in journal_category.rows : r.issn = j /\ r.area \in A}

C10_AreaLicenceDefinition ==
    (ret.op = "getJournalsInAreasWithLicense" /\ Healthy) =>
        /\ ret.exc = "none"
        /\ SameSet(IdSet(ret.val), AreaLicenceJournals(ret.args[1], ret.args[2]))

(***************************************************************************)
(* C3: in each compound query an empty filter set means "no restriction on *)
(* that axis": the call returns the same journals as the call that passes, *)
(* on that axis, every value occurring in the store.                       *)
(***************************************************************************)
\* the values that occur in the store on axis k of a compound query
AxisValues(op, k) ==
    CASE op = "getJournalsInCategoriesWithQuartile" ->
           IF k = 1 THEN StoreCategoryIds ELSE StoreQuartiles
      [] op = "getJournalsInAreasWithLicense" ->
           IF k = 1 THEN StoreAreas ELSE StoreLicences
      [] op = "getDiamondJournalsInAreasAndCategoriesWithQuartile" ->
           IF k = 1 THEN StoreAreas ELSE IF k = 2 THEN StoreCategoryIds ELSE StoreQuartiles

SameJournals(a, b) == a.exc = b.exc /\ SameSet(IdSet(a.val), IdSet(b.val))

\* the call at hand against the call with axis k widened to every stored value
EmptyMeansAll(k) ==
    ret.args[k] = {} =>
        SameJournals(ret, Result(ret.op, [ret.args EXCEPT ![k] = AxisValues(ret.op, k)]))

RemoveAt(reg, k) == [i \in 1..(Len(reg) - 1) |-> IF i < k THEN reg[i] ELSE reg[i + 1]]

\* the handler calls an operation makes on each side: <<method, argument>>
JournalCalls(op, args) ==
    IF op = "getEntityById" THEN {<<"getById", args[1]>>}
    ELSE IF op \in CompoundOps THEN {<<"getAllJournals", {}>>}
    ELSE IF op \in {"getJournalsWithTitle", "getJournalsPublishedBy", "getJournalsWithLicense"}
         THEN {<<op, args[1]>>}
    ELSE IF op \in JournalListOps THEN {<<op, {}>>}
    ELSE {}

CategoryCalls(op, args) ==
    IF op = "getEntityById" THEN {<<"getById", args[1]>>}
    ELSE IF op \in CompoundOps THEN {<<"getCategoryLinks", {}>>, <<"getAllCategories", {}>>}
    ELSE IF op \in {"getAllCategories", "getAllAreas"} THEN {<<op, {}>>}
    ELSE IF op \in CategoryListOps THEN {<<op, args[1]>>}
    ELSE {}

SameJournalRelations(h1, h2, op, args) ==
    \A c \in JournalCalls(op, args) :
        JournalQueryHandler_call(h1, graph, c[1], c[2]) =
            JournalQueryHandler_call(h2, graph, c[1], c[2])

SameCategoryRelations(h1, h2, op, args) ==
    \A c \in CategoryCalls(op, args) :
        LET r1 == CategoryQueryHandler_call(h1, journal_category, c[1], c[2])
            r2 == CategoryQueryHandler_call(h2, journal_category, c[1], c[2])
        IN r1.exc = "none" /\ r1 = r2

C5_MergeDedupLaw ==
    ret.op \in QueryOps =>
        /\ \A i, k \in 1..Len(journalQuery) :
              (i < k /\ SameJournalRelations(journalQuery[i], journalQuery[k], ret.op, ret.args)) =>
                  ret = Call(ret.op, ret.args,
                             EvalQuery(RemoveAt(journalQuery, k), categoryQuery,
                                       graph, journal_category, ret.op, ret.args))
        /\ \A i, k \in 1..Len(categoryQuery) :
              (i < k /\ SameCategoryRelations(categoryQuery[i], categoryQuery[k], ret.op, ret.args)) =>
                  ret = Call(ret.op, ret.args,
                             EvalQuery(journalQuery, RemoveAt(categoryQuery, k),
                                       graph, journal_category, ret.op, ret.args))

\* two handlers on the one categorical store, and getAllCategories returns
\* each of its two categories once
C5_Witness ==
    /\ categoryQuery = <<RELATIONAL_DB_PATH, RELATIONAL_DB_PATH>>
    /\ ret.op = "getAllCategories"
    /\ ret.exc = "none"
    /\ Len(ret.val) = 2

(***************************************************************************)
(* C6: in a registry of several handlers, a handler that fails during a    *)
(* query contributes zero rows: the call does not raise, and its result is *)
(* the result computed from the remaining handlers.                        *)
(***************************************************************************)
Reachable(reg) ==
    LET Up(h) == h \in {GRAPH_DB_ENDPOINT, RELATIONAL_DB_PATH}
    IN SelectSeq(reg, Up)

\* a registry of several handlers of which some, but not all, fail
OneFails(reg) == Len(reg) >= 2 /\ Reachable(reg) # <<>> /\ Reachable(reg) # reg

C6_FailingHandlerContributesNothing ==
    (/\ ret.op \in QueryOps
     /\ journal_category.created
     /\ OneFails(journalQuery) \/ OneFails(categoryQuery)) =>
        /\ ret.exc # "DatabaseError"
        /\ ret = Call(ret.op, ret.args,
                      EvalQuery(IF OneFails(journalQuery) THEN Reachable(journalQuery)
                                ELSE journalQuery,
                                IF OneFails(categoryQuery) THEN Reachable(categoryQuery)
                                ELSE categoryQuery,
                                graph, journal_category, ret.op, ret.args))

(***************************************************************************)
(* C7: a list or compound query returns the empty sequence, and does not   *)
(* raise, whenever no row matches: one or both registries are empty, or    *)
(* every registered handler returns an empty relation.                     *)
(***************************************************************************)
\* every handler call the operation makes on that side returns no row
NoJournalRows(op, args) ==
    \A i \in 1..Len(journalQuery) : \A c \in JournalCalls(op, args) :
        IsEmpty(JournalQueryHandler_call(journalQuery[i], graph, c[1], c[2]))

NoCategoryRows(op, args) ==
    \A i \in 1..Len(categoryQuery) : \A c \in CategoryCalls(op, args) :
        LET r == CategoryQueryHandler_call(categoryQuery[i], journal_category, c[1], c[2])
        IN r.exc = "none" /\ IsEmpty(r.df)

\* the side(s) the operation needs a row from give none
NoRowMatches(op, args) ==
    CASE op \in JournalListOps -> NoJournalRows(op, args)
      [] op \in CategoryListOps -> NoCategoryRows(op, args)
      [] op = "getJournalsInAreasWithLicense" /\ args[1] = {} -> NoJournalRows(op, args)
      [] OTHER -> NoJournalRows(op, args) \/ NoCategoryRows(op, args)

C7_EmptyResultNotError ==
    (ret.op \in JournalListOps \cup CategoryListOps \cup CompoundOps
        /\ NoRowMatches(ret.op, ret.args)) =>
        ret.exc = "none" /\ ret.val = <<>>

(***************************************************************************)
(* C8: getEntityById(id) returns the Journal for id when a bibliographic   *)
(* handler has rows for it; otherwise the Category for id when a category  *)
(* handler has rows for it; otherwise null.  It never raises.              *)
(***************************************************************************)
JournalRowsFor(id) ==
    \E i \in 1..Len(journalQuery) :
        ~IsEmpty(JournalQueryHandler_call(journalQuery[i], graph, "getById", id))

CategoryRowsFor(id) ==
    \E i \in 1..Len(categoryQuery) :
        ~IsEmpty(CategoryQueryHandler_call(categoryQuery[i], journal_category, "getById", id).df)

C8_LookupJournalFirst ==
    ret.op = "getEntityById" =>
        /\ ret.exc = "none"
        /\ IF JournalRowsFor(ret.args[1])
           THEN Len(ret.val) = 1 /\ ret.val[1].kind = "Journal" /\ ret.args[1] \in Range(ret.val[1].ids)
           ELSE IF CategoryRowsFor(ret.args[1])
           THEN Len(ret.val) = 1 /\ ret.val[1].kind = "Category" /\ ret.val[1].ids = <<ret.args[1]>>
           ELSE ret.val = <<>>

(***************************************************************************)
(* C4: for every (subject, predicate) of the long relation, the cell of    *)
(* the wide relation is the single object when there is exactly one triple *)
(* and, when there are k > 1 triples, the sequence of all k objects,       *)
(* repeated identical values included.                                     *)
(***************************************************************************)
\* the objects of the triples (s, p) of the long relation, in order
ObjectsOf(s, p) ==
    LET Is(r) == r.subject = s /\ r.predicate = p
        g == SelectSeq(long_df.rows, Is)
    IN [i \in 1..Len(g) |-> g[i].object]

C4_NormalizerCardinalityLaw ==
    ret.op = "_df_to_wide" =>
        \A i \in 1..Len(long_df.rows) :
            LET s == long_df.rows[i].subject
                p == long_df.rows[i].predicate
                objs == ObjectsOf(s, p)
            IN \E n \in 1..Len(wide_df.rows) :
                  /\ wide_df.rows[n]["uri"] = Scalar(s)
                  /\ wide_df.rows[n][LocalName(p)] =
                        IF Len(objs) = 1 THEN Scalar(objs[1]) ELSE ListOf(objs)

(***************************************************************************)
(* C9: when a journal row has its id, the mapping to Journal does not      *)
(* raise, and a missing optional field gets its default: title and licence *)
(* the empty text, apc and seal false, languages the empty list, and no    *)
(* publisher.                                                              *)
(***************************************************************************)
Missing(df, row, c) == c \notin df.cols \/ row[c].kind = "nan"

HasIds(df) ==
    \A n \in 1..Len(df.rows) : ~Missing(df, df.rows[n], "id")

C9_MissingFieldDefaults ==
    (ret.op = "_wide_df_to_journals" /\ HasIds(wide_df)) =>
        /\ journals.exc = "none"
        /\ Len(journals.val) = Len(wide_df.rows)
        /\ \A n \in 1..Len(wide_df.rows) :
              LET row == wide_df.rows[n]
                  j == journals.val[n]
              IN /\ Missing(wide_df, row, "title") => j.title = Scalar("")
                 /\ Missing(wide_df, row, "license") => j.licence = Scalar("")
                 /\ Missing(wide_df, row, "apc") => j.apc = FALSE
                 /\ Missing(wide_df, row, "seal") => j.seal = FALSE
                 /\ Missing(wide_df, row, "language") => j.languages = <<>>
                 /\ Missing(wide_df, row, "publisher") => j.publisher = <<>>

(***************************************************************************)
(* C11: after every CategoryUploadHandler.pushDataToDb the table holds at  *)
(* most one row for each (issn, category_id, area); the row of a key the   *)
(* call wrote carries the quartile of the last write for that key; writes  *)
(* with one issn and category_id but different areas are all kept; and     *)
(* the rows of the keys the call did not write stay as they were.          *)
(***************************************************************************)
\* the rows a file writes, in the order it writes them
Writes(file) == Flatten([k \in 1..Len(file) |-> EntryRows(file[k])])

SameKey(r1, r2) ==
    r1.issn = r2.issn /\ r1.category_id = r2.category_id /\ r1.area = r2.area

LastWriteWins(old, writes, new) ==
    /\ \A r1, r2 \in new : SameKey(r1, r2) => r1 = r2
    /\ \A i \in 1..Len(writes) :
          (\A k \in (i + 1)..Len(writes) : ~SameKey(writes[k], writes[i])) => writes[i] \in new
    /\ \A r \in old : (\A i \in 1..Len(writes) : ~SameKey(writes[i], r)) => r \in new
    /\ \A r \in new : r \in old \/ r \in Range(writes)

C11_PrimaryKeyLastWriteWins ==
    [][ret'.op = "CategoryUploadHandler.pushDataToDb" =>
          /\ journal_category'.created
          /\ LastWriteWins(journal_category.rows, Writes(ret'.args[1]), journal_category'.rows)]_vars

\* the file that rewrites (j1, X, A1) was pushed over a table that held other
\* rows: the key has the later quartile, and the second area has its own row
C11_Witness ==
    /\ ret.op = "CategoryUploadHandler.pushDataToDb"
    /\ ret.args = <<RewritingFile>>
    /\ [issn |-> "j1", category_id |-> "X", quartile |-> "Q2", area |-> "A1"] \in journal_category.rows
    /\ [issn |-> "j1", category_id |-> "X", quartile |-> "Q2", area |-> "A2"] \in journal_category.rows
    /\ [issn |-> "j2", category_id |-> "X", quartile |-> "Q2", area |-> "A2"] \in journal_category.rows
    /\ Cardinality(journal_category.rows) = 3

(***************************************************************************)
(* C12: every Area, Category, Publisher and Journal that exists holds at   *)
(* least one identifier: a construction with an empty identifier           *)
(* collection yields no entity.                                            *)
(***************************************************************************)
C12_EntitiesHoldAnIdentifier ==
    \A i \in 1..Len(entity.val) : entity.val[i].ids # <<>>

(***************************************************************************)
(* C16: each addCategory call leaves getCategories() as it was when the    *)
(* category object is already in it, and otherwise appends the object once *)
(* at the end; nothing is removed or reordered.                            *)
(***************************************************************************)
C16_AddCategoryAppendsOnce ==
    [][ret'.op = "addCategory" =>
          LET c == ret'.args[1]
              old == entity.val[1].categories
              new == entity'.val[1].categories
          IN /\ SubSeq(new, 1, Len(old)) = old
             /\ IF \E i \in 1..Len(old) : old[i] = c
                THEN new = old
                ELSE new = Append(old, c)
             /\ [entity'.val[1] EXCEPT !.categories = old] = entity.val[1]]_vars

\* a second object with the same fields was appended after the first, and the
\* first was then added again without effect
C16_Witness ==
    /\ ret.op = "addCategory"
    /\ ret.args[1].oid = "c1"
    /\ Len(entity.val) = 1
    /\ Len(entity.val[1].categories) = 2
    /\ entity.val[1].categories[1].oid = "c1"
    /\ entity.val[1].categories[2].oid = "c2"

(***************************************************************************)
(* C13: each registry is the sequence of the handlers added to it since    *)
(* its last clean, in registration order, a handler added twice being      *)
(* present twice; an operation on one registry leaves the other alone;     *)
(* cleaning an empty registry leaves it empty; no other operation changes  *)
(* a registry; and combine concatenates the handlers' rows in the order    *)
(* of the handlers.                                                        *)
(***************************************************************************)
RegistryOps ==
    {"addJournalHandler", "addCategoryHandler", "cleanJournalHandlers", "cleanCategoryHandlers"}

\* relations two handlers could return for one call, with and without common rows
SampleFrames ==
    { Frame(AreaCols, <<[area |-> "A1"]>>),
      Frame(AreaCols, <<[area |-> "A2"], [area |-> "A1"]>>),
      Frame(AreaCols, <<[area |-> "A3"], [area |-> "A2"]>>) }

\* the rows of f1 in their order, then the rows of f2 that f1 does not have
CombineKeepsRegistrationOrder ==
    \A f1, f2 \in SampleFrames :
        LET c == BasicQueryEngine_get_combined_df(<<Ok(f1), Ok(f2)>>)
            NotInFirst(r) == r \notin Range(f1.rows)
        IN c.exc = "none" /\ c.df.rows = f1.rows \o SelectSeq(f2.rows, NotInFirst)

C13_RegistriesKeepRegistrationOrder ==
    [][/\ ret'.op = "addJournalHandler" =>
             journalQuery' = Append(journalQuery, ret'.args[1]) /\ categoryQuery' = categoryQuery
       /\ ret'.op = "addCategoryHandler" =>
             categoryQuery' = Append(categoryQuery, ret'.args[1]) /\ journalQuery' = journalQuery
       /\ ret'.op = "cleanJournalHandlers" =>
             journalQuery' = <<>> /\ categoryQuery' = categoryQuery
       /\ ret'.op = "cleanCategoryHandlers" =>
             categoryQuery' = <<>> /\ journalQuery' = journalQuery
       /\ ret'.op \notin RegistryOps =>
             journalQuery' = journalQuery /\ categoryQuery' = categoryQuery
       /\ CombineKeepsRegistrationOrder]_vars

\* the same bibliographic handler registered a second time, next to a category handler
C13_Witness ==
    /\ ret.op = "addJournalHandler"
    /\ ret.args = <<GRAPH_DB_ENDPOINT>>
    /\ journalQuery = <<GRAPH_DB_ENDPOINT, GRAPH_DB_ENDPOINT>>
    /\ categoryQuery = <<RELATIONAL_DB_PATH>>

(***************************************************************************)
(* C14: a query operation changes neither registry and neither store, and  *)
(* what it returns is a function of the registries and the store contents  *)
(* at the time of the call only: nothing of an earlier call is kept.       *)
(***************************************************************************)
C14_QueriesAreStatelessReads ==
    [][ret'.op \in QueryOps =>
          /\ journalQuery' = journalQuery
          /\ categoryQuery' = categoryQuery
          /\ graph' = graph
          /\ journal_category' = journal_category
          /\ ret' = Call(ret'.op, ret'.args,
                         EvalQuery(journalQuery', categoryQuery', graph', journal_category',
                                   ret'.op, ret'.args))]_vars

\* after queries that returned journals, a query on a cleaned bibliographic
\* registry over the same store returns none
C14_Witness ==
    /\ ret.op = "getAllJournals"
    /\ graph # {}
    /\ journalQuery = <<>>
    /\ categoryQuery = <<RELATIONAL_DB_PATH>>
    /\ ret.exc = "none"
    /\ ret.val = <<>>

(***************************************************************************)
(* C15: for every wide record mapped to a Journal, hasAPC() is true        *)
(* exactly when the apc cell is one text that reads "true" in any          *)
(* capitalisation, and hasDOAJSeal() likewise for the seal cell; for any   *)
(* other value (another text, several values, NaN) and for an absent       *)
(* column it is false.                                                     *)
(***************************************************************************)
TrueTexts == {"true", "True", "TRUE"}

ReadsTrue(df, row, c) ==
    /\ c \in df.cols
    /\ row[c].kind = "scalar"
    /\ row[c].vals[1] \in TrueTexts

C15_FlagsReadTrueIgnoringCase ==
    (ret.op = "_wide_df_to_journals" /\ journals.exc = "none") =>
        /\ Len(journals.val) = Len(wide_df.rows)
        /\ \A n \in 1..Len(wide_df.rows) :
              /\ journals.val[n].apc = ReadsTrue(wide_df, wide_df.rows[n], "apc")
              /\ journals.val[n].seal = ReadsTrue(wide_df, wide_df.rows[n], "seal")

\* a record with apc "True" and no seal column is mapped to a journal with
\* hasAPC() true and hasDOAJSeal() false
C15_Witness ==
    /\ ret.op = "_wide_df_to_journals"
    /\ journals.exc = "none"
    /\ Len(journals.val) = 1
    /\ "apc" \in wide_df.cols
    /\ "seal" \notin wide_df.cols
    /\ wide_df.rows[1].apc = Scalar("True")
    /\ journals.val[1].apc
    /\ ~journals.val[1].seal

(***************************************************************************)
(* C17: every compound query (getJournalsInCategoriesWithQuartile,         *)
(* getJournalsInAreasWithLicense with areas given,                         *)
(* getDiamondJournalsInAreasAndCategoriesWithQuartile) returns each        *)
(* journal at most once: no two positions of the returned sequence hold    *)
(* journals with the same identifiers.                                     *)
(***************************************************************************)
C17_CompoundReturnsEachJournalOnce ==
    (/\ ret.op \in CompoundOps
     /\ ret.exc = "none"
     /\ ret.op = "getJournalsInAreasWithLicense" => ret.args[1] # {}) =>
        \A a \in 1..Len(ret.val) : \A b \in 1..Len(ret.val) :
            a # b => ret.val[a].ids # ret.val[b].ids

====
